---- MODULE Spec2Model ----
(***************************************************************************)
(* TonyLexer (src/go-tony/docs/sketchy/pygments-tony/pygments_tony.py):    *)
(* the rule table `tokens` of a Pygments RegexLexer, and the loop that     *)
(* drives it (RegexLexer.get_tokens_unprocessed, regular expressions        *)
(* compiled with re.MULTILINE and matched with pattern.match(text, pos)).   *)
(*                                                                         *)
(* text is the text handed to get_tokens_unprocessed, a sequence of        *)
(* one-character strings.  Positions are 1-based:                          *)
(* pos is the index of the next character to scan, so Python's offset is   *)
(* pos - 1 and the end of input is pos = Len(text) + 1.                    *)
(***************************************************************************)
EXTENDS Integers, Sequences, FiniteSets, TLC

VARIABLES text, pos, stack, out, nsteps, last, cur

vars == <<text, pos, stack, out, nsteps, last, cur>>

(***************************************************************************)
(* Character classes of Python's re, restricted to ASCII.                  *)
(***************************************************************************)
NL == "\n"

Lower == {"a","b","c","d","e","f","g","h","i","j","k","l","m",
          "n","o","p","q","r","s","t","u","v","w","x","y","z"}

Upper == {"A","B","C","D","E","F","G","H","I","J","K","L","M",
          "N","O","P","Q","R","S","T","U","V","W","X","Y","Z"}

Digit == {"0","1","2","3","4","5","6","7","8","9"}

\* \s
Space == {" ", "\t", "\n", "\r", "\f"}

\* \w
Word == Lower \cup Upper \cup Digit \cup {"_"}

(***************************************************************************)
(* Regular expressions as trees.                                           *)
(***************************************************************************)
In(S)     == [t |-> "in", s |-> S]
NotIn(S)  == [t |-> "notin", s |-> S]
Ch(c)     == In({c})
Dot       == NotIn({NL})
Bol       == [t |-> "bol"]
Eol       == [t |-> "eol"]
Wb        == [t |-> "wb"]
Cat(rs)   == [t |-> "cat", rs |-> rs]
Alt(rs)   == [t |-> "alt", rs |-> rs]
Star(r)   == [t |-> "star", r |-> r]
Lazy(r)   == [t |-> "lazy", r |-> r]
Plus(r)   == Cat(<<r, Star(r)>>)
Opt(r)    == Alt(<<r, Cat(<<>>)>>)
Look(r)   == [t |-> "look", r |-> r]
Lit(cs)   == Cat([i \in 1..Len(cs) |-> Ch(cs[i])])

(***************************************************************************)
(* Ends(r, s, p): the positions at which a match of r that starts at p in  *)
(* s can end, in the order in which Python's backtracking matcher tries    *)
(* them (greedy repetition: longest first; lazy: shortest first;           *)
(* alternation: left to right).                                            *)
(***************************************************************************)
\* a repetition is not iterated on an empty match of its body
Longer(es, p) == SelectSeq(es, LAMBDA e : e > p)

RECURSIVE Ends(_, _, _), CatEnds(_, _, _, _), AltEnds(_, _, _, _), Each(_, _, _, _)

Ends(r, s, p) ==
  CASE r.t = "in"    -> IF p <= Len(s) /\ s[p] \in r.s THEN <<p + 1>> ELSE <<>>
    [] r.t = "notin" -> IF p <= Len(s) /\ s[p] \notin r.s THEN <<p + 1>> ELSE <<>>
    [] r.t = "bol"   -> IF p = 1 \/ s[p - 1] = NL THEN <<p>> ELSE <<>>
    [] r.t = "eol"   -> IF p = Len(s) + 1 \/ s[p] = NL THEN <<p>> ELSE <<>>
    [] r.t = "wb"    -> IF (p > 1 /\ s[p - 1] \in Word) # (p <= Len(s) /\ s[p] \in Word)
                        THEN <<p>> ELSE <<>>
    [] r.t = "look"  -> IF Ends(r.r, s, p) # <<>> THEN <<p>> ELSE <<>>
    [] r.t = "cat"   -> CatEnds(r.rs, 1, s, p)
    [] r.t = "alt"   -> AltEnds(r.rs, 1, s, p)
    [] r.t = "star"  -> Each(r, s, Longer(Ends(r.r, s, p), p), 1) \o <<p>>
    [] r.t = "lazy"  -> <<p>> \o Each(r, s, Longer(Ends(r.r, s, p), p), 1)

\* the ends of rs[i] rs[i+1] ... from p
CatEnds(rs, i, s, p) ==
  IF i > Len(rs) THEN <<p>>
  ELSE Each([t |-> "tail", rs |-> rs, i |-> i + 1], s, Ends(rs[i], s, p), 1)

AltEnds(rs, i, s, p) ==
  IF i > Len(rs) THEN <<>>
  ELSE Ends(rs[i], s, p) \o AltEnds(rs, i + 1, s, p)

\* the continuation k from each of the ends es[j], es[j+1], ..., in order
Each(k, s, es, j) ==
  IF j > Len(es) THEN <<>>
  ELSE (IF k.t = "tail" THEN CatEnds(k.rs, k.i, s, es[j]) ELSE Ends(k, s, es[j]))
       \o Each(k, s, es, j + 1)

(***************************************************************************)
(* A pattern is the sequence of its top-level parts (a concatenation), so  *)
(* that the parts that are capture groups can be named by their index.     *)
(* Path(segs, 1, s, p) is <<>> when the pattern does not match at p, and   *)
(* otherwise the boundaries <<p, e1, ..., ek>> of the parts in the match   *)
(* Python finds: the first in backtracking order.                          *)
(***************************************************************************)
RECURSIVE Path(_, _, _, _), PathFrom(_, _, _, _, _, _)

Path(segs, i, s, p) ==
  IF i > Len(segs) THEN <<p>>
  ELSE PathFrom(segs, i, s, p, Ends(segs[i], s, p), 1)

PathFrom(segs, i, s, p, es, j) ==
  IF j > Len(es) THEN <<>>
  ELSE LET rest == Path(segs, i + 1, s, es[j])
       IN  IF rest # <<>> THEN <<p>> \o rest
           ELSE PathFrom(segs, i, s, p, es, j + 1)

(***************************************************************************)
(* The rule table.  A rule is (pattern, action, new state): tok is the     *)
(* token type of the whole match, or by is bygroups(...), naming for each  *)
(* group the part of the pattern it is and its token type.                 *)
(***************************************************************************)
Rule(pat, tok, new) == [pat |-> pat, tok |-> tok, by |-> <<>>, new |-> new]

ByGroups(pat, by, new) == [pat |-> pat, tok |-> "", by |-> by, new |-> new]

Group(g, tok) == [g |-> g, tok |-> tok]

\* [a-zA-Z0-9_.:/+=~@$%^\-&]
TagChar == Lower \cup Upper \cup Digit
           \cup {"_", ".", ":", "/", "+", "=", "~", "@", "$", "%", "^", "-", "&"}

\* [a-zA-Z0-9_.:/+=~@$%^\-&]+(?:\.[a-zA-Z0-9_.:/+=~@$%^\-&]+)*
TagName == Cat(<<Plus(In(TagChar)), Star(Cat(<<Ch("."), Plus(In(TagChar))>>))>>)

HexDigit == Digit \cup {"a","b","c","d","e","f","A","B","C","D","E","F"}

OctDigit == {"0","1","2","3","4","5","6","7"}

\* ^---\s*$
DocSeparator ==
  Rule(<<Bol, Lit(<<"-", "-", "-">>), Star(In(Space)), Eol>>, "Comment.Special", "")

\* #.*?(TODO|FIXME|XXX|NOTE).*$
CommentSpecial ==
  Rule(<<Ch("#"), Lazy(Dot),
         Alt(<<Lit(<<"T","O","D","O">>), Lit(<<"F","I","X","M","E">>),
               Lit(<<"X","X","X">>), Lit(<<"N","O","T","E">>)>>),
         Star(Dot), Eol>>, "Comment.Special", "")

\* #.*$
CommentPlain == Rule(<<Ch("#"), Star(Dot), Eol>>, "Comment", "")

\* ^\s*<<:\s*
MergeKey ==
  Rule(<<Bol, Star(In(Space)), Lit(<<"<", "<", ":">>), Star(In(Space))>>, "Operator", "")

\* !(name)(?=\s|:|$|\[|\{|\(|,)
TagPlain ==
  Rule(<<Ch("!"), TagName,
         Look(Alt(<<In(Space), Ch(":"), Eol, Ch("["), Ch("{"), Ch("("), Ch(",")>>))>>,
       "Keyword", "")

\* !(name)\(  with bygroups(Keyword)
TagWithArgs ==
  ByGroups(<<Ch("!"), TagName, Ch("(")>>, <<Group(2, "Keyword")>>, "tag-args")

\* \$\[[^\]]+\]
Interpolation ==
  Rule(<<Ch("$"), Ch("["), Plus(NotIn({"]"})), Ch("]")>>, "Name.Variable", "")

\* \.\[[^\]]+\]
NodeReplacement ==
  Rule(<<Ch("."), Ch("["), Plus(NotIn({"]"})), Ch("]")>>, "Name.Variable", "")

\* ^(\s*)(\|[\+\-]?)\s*$  with bygroups(Text, Punctuation)
BlockMarker ==
  ByGroups(<<Bol, Star(In(Space)), Cat(<<Ch("|"), Opt(In({"+", "-"}))>>),
             Star(In(Space)), Eol>>,
           <<Group(2, "Text"), Group(3, "Punctuation")>>, "block-literal")

\* "
DoubleOpen == Rule(<<Ch("\"")>>, "String.Double", "double-string")

\* '([^'\\]|\\.)*'
SingleString ==
  Rule(<<Ch("'"), Star(Alt(<<NotIn({"'", "\\"}), Cat(<<Ch("\\"), Dot>>)>>)), Ch("'")>>,
       "String.Single", "")

\* -?\d+\.\d+
NumFloat ==
  Rule(<<Opt(Ch("-")), Plus(In(Digit)), Ch("."), Plus(In(Digit))>>, "Number.Float", "")

\* -?\d+
NumInteger == Rule(<<Opt(Ch("-")), Plus(In(Digit))>>, "Number.Integer", "")

\* -?0[xX][0-9a-fA-F]+
NumHex ==
  Rule(<<Opt(Ch("-")), Ch("0"), In({"x", "X"}), Plus(In(HexDigit))>>, "Number.Hex", "")

\* -?0[oO][0-7]+
NumOct ==
  Rule(<<Opt(Ch("-")), Ch("0"), In({"o", "O"}), Plus(In(OctDigit))>>, "Number.Oct", "")

\* \b(true|false|null)\b
Constant ==
  Rule(<<Wb, Alt(<<Lit(<<"t","r","u","e">>), Lit(<<"f","a","l","s","e">>),
                   Lit(<<"n","u","l","l">>)>>), Wb>>, "Keyword.Constant", "")

\* [\[\]{}]
Bracket == Rule(<<In({"[", "]", "{", "}"})>>, "Punctuation", "")

\* [:,-]\s+
Separator == Rule(<<In({":", ",", "-"}), Plus(In(Space))>>, "Punctuation", "")

\* \s* in place of \s+: a whitespace rule that also matches nothing
WhitespaceOrNothing == Rule(<<Star(In(Space))>>, "Text", "")

\* \s+
Whitespace == Rule(<<Plus(In(Space))>>, "Text", "")

\* [^\s\[\]{}:,!$.#"\'-]+
PlainName ==
  Rule(<<Plus(NotIn(Space \cup {"[", "]", "{", "}", ":", ",", "!", "$", ".", "#",
                               "\"", "'", "-"}))>>, "Name", "")

\* the two comment rules in the other order: the general rule first
RootGeneralCommentFirst ==
  <<DocSeparator, CommentPlain, CommentSpecial, MergeKey, TagPlain, TagWithArgs,
    Interpolation, NodeReplacement, BlockMarker, DoubleOpen, SingleString,
    NumFloat, NumInteger, NumHex, NumOct, Constant, Bracket, Separator,
    Whitespace, PlainName>>

Root ==
  <<DocSeparator, CommentSpecial, CommentPlain, MergeKey, TagPlain, TagWithArgs,
    Interpolation, NodeReplacement, BlockMarker, DoubleOpen, SingleString,
    NumFloat, NumInteger, NumHex, NumOct, Constant, Bracket, Separator,
    Whitespace, PlainName>>

\* [a-zA-Z0-9_.:/+=~@$%^&*-]+
ArgName ==
  Rule(<<Plus(In(TagChar \cup {"*"}))>>, "Name", "")

\* ,
ArgComma == Rule(<<Ch(",")>>, "Punctuation", "")

\* \)
ArgClose == Rule(<<Ch(")")>>, "Keyword", "#pop")

TagArgs ==
  <<DoubleOpen, SingleString, NumFloat, NumInteger, Constant, ArgName, ArgComma,
    ArgClose, Whitespace>>

\* \\[\\"nrtbf]
Escape ==
  Rule(<<Ch("\\"), In({"\\", "\"", "n", "r", "t", "b", "f"})>>, "String.Escape", "")

\* the closing quote given the opening quote's transition: pushes, never pops
DoubleClosePushes == Rule(<<Ch("\"")>>, "String.Double", "double-string")

\* "
DoubleClose == Rule(<<Ch("\"")>>, "String.Double", "#pop")

\* [^\\"]+ in place of [^\\"$]+: a string run that does not stop at $
StringRunOverDollar == Rule(<<Plus(NotIn({"\\", "\""}))>>, "String.Double", "")

\* [^\\"$]+
StringRun == Rule(<<Plus(NotIn({"\\", "\"", "$"}))>>, "String.Double", "")

DoubleString == <<Escape, Interpolation, DoubleClose, StringRun>>

\* ^(\s+).*$
BlockContent == Rule(<<Bol, Plus(In(Space)), Star(Dot), Eol>>, "String", "")

\* ^[^\s]
BlockEnd == Rule(<<Bol, NotIn(Space)>>, "Text", "#pop")

BlockLiteral == <<BlockContent, BlockEnd>>

tokens(mode) ==
  CASE mode = "root"          -> Root
    [] mode = "tag-args"      -> TagArgs
    [] mode = "double-string" -> DoubleString
    [] mode = "block-literal" -> BlockLiteral

Modes == {"root", "tag-args", "double-string", "block-literal"}

(***************************************************************************)
(* The loop of RegexLexer.get_tokens_unprocessed.                          *)
(***************************************************************************)
\* for rexmatch, action, new_state in statetokens: m = rexmatch(text, pos); if m:
\* the first rule of the table that matches at p, with its match (i = 0: none)
RECURSIVE FirstMatch(_, _, _, _)

FirstMatch(rules, i, s, p) ==
  IF i > Len(rules) THEN [i |-> 0, b |-> <<>>]
  ELSE LET b == Path(rules[i].pat, 1, s, p)
       IN  IF b # <<>> THEN [i |-> i, b |-> b]
           ELSE FirstMatch(rules, i + 1, s, p)

Token(off, kind, lex) == [off |-> off, kind |-> kind, lex |-> lex]

\* bygroups: one token per group, in order; a group that matched nothing yields none
RECURSIVE GroupTokens(_, _, _, _)

GroupTokens(by, j, s, b) ==
  IF j > Len(by) THEN <<>>
  ELSE LET from == b[by[j].g]
           to   == b[by[j].g + 1]
       IN  (IF to > from THEN <<Token(from, by[j].tok, SubSeq(s, from, to - 1))>>
            ELSE <<>>)
           \o GroupTokens(by, j + 1, s, b)

\* the tokens a rule's action yields for the match with boundaries b
Emit(rule, s, b) ==
  IF rule.by = <<>>
  THEN <<Token(b[1], rule.tok, SubSeq(s, b[1], b[Len(b)] - 1))>>
  ELSE GroupTokens(rule.by, 1, s, b)

\* the state transition of a rule: a state name is pushed; '#pop' pops, but keeps
\* at least one state on the stack
NewStack(st, new) ==
  CASE new = ""     -> st
    [] new = "#pop" -> IF 1 >= Len(st) THEN SubSeq(st, 1, 1)
                       ELSE SubSeq(st, 1, Len(st) - 1)
    [] OTHER        -> Append(st, new)

Top(st) == st[Len(st)]

\* cur is the outcome of trying the rules of the state on top of st at p
Pending(st, s, p) == FirstMatch(tokens(Top(st)), 1, s, p)

\* what the last iteration of the loop did: the state it ran in, the rule that
\* matched (0: none), the span it consumed, the tokens it yielded and its stack
Record(kind, m, to, toks) ==
  [kind |-> kind, mode |-> Top(stack), rule |-> m.i, from |-> pos, to |-> to,
   toks |-> toks, before |-> stack]

\* a rule of the current state matches: yield its tokens, move to the end of the
\* match, change state
MatchRule ==
  LET m    == cur
      rule == tokens(Top(stack))[m.i]
      to   == m.b[Len(m.b)]
  IN  /\ nsteps <= Len(text)
      /\ m.i # 0
      /\ out' = out \o Emit(rule, text, m.b)
      /\ pos' = to
      /\ stack' = NewStack(stack, rule.new)
      /\ nsteps' = nsteps + 1
      /\ last' = Record("rule", m, to, Emit(rule, text, m.b))
      /\ cur' = Pending(stack', text, pos')
      /\ UNCHANGED text

\* the token type of the newline the loop yields itself: Text in the releases of
\* Pygments from 2.0 on, Whitespace in the later ones
NewlineKinds == {"Text", "Whitespace"}

\* no rule matches and the character is a newline: reset the stack to root
FallbackNewline ==
  LET m == cur
  IN  /\ nsteps <= Len(text)
      /\ m.i = 0
      /\ pos <= Len(text)
      /\ text[pos] = NL
      /\ stack' = <<"root">>
      /\ \E kind \in NewlineKinds :
           /\ out' = Append(out, Token(pos, kind, <<NL>>))
           /\ last' = Record("newline", m, pos + 1, <<Token(pos, kind, <<NL>>)>>)
      /\ pos' = pos + 1
      /\ nsteps' = nsteps + 1
      /\ cur' = Pending(stack', text, pos')
      /\ UNCHANGED text

\* no rule matches: the character is an Error token
FallbackError ==
  LET m == cur
  IN  /\ nsteps <= Len(text)
      /\ m.i = 0
      /\ pos <= Len(text)
      /\ text[pos] # NL
      /\ out' = Append(out, Token(pos, "Error", <<text[pos]>>))
      /\ pos' = pos + 1
      /\ nsteps' = nsteps + 1
      /\ last' = Record("error", m, pos + 1, <<Token(pos, "Error", <<text[pos]>>)>>)
      /\ cur' = Pending(stack, text, pos')
      /\ UNCHANGED <<text, stack>>

\* the loop has ended: no rule matches at the end of the text (IndexError: break)
Done == pos = Len(text) + 1 /\ cur.i = 0

Start(inputs) ==
  /\ text \in inputs
  /\ pos = 1
  /\ stack = <<"root">>
  /\ out = <<>>
  /\ nsteps = 0
  /\ last = [kind |-> "start", mode |-> "root", rule |-> 0, from |-> 1, to |-> 1,
             toks |-> <<>>, before |-> <<"root">>]
  /\ cur = Pending(stack, text, pos)

Next == MatchRule \/ FallbackNewline \/ FallbackError

(***************************************************************************)
(* Inputs.  The texts of the specification's examples and of the           *)
(* repository's own test scripts, and every text of at most MaxLen         *)
(* characters over each of a few small alphabets.                          *)
(***************************************************************************)
\* spec.md, Tag-with-args
ExTagArgs ==
  <<"!","t","a","g","(","1",","," ","\"","x","\"",")">>

\* spec.md, Tag recognition
ExTagColon ==
  <<"!","f","o","o",".","b","a","r",":"," ","1">>

\* spec.md, Interpolation inside strings
ExInterp ==
  <<"\"","a","$","[","x","]","b","\"">>

\* spec.md, Comment priority
ExTodo ==
  <<"#"," ","T","O","D","O"," ","f","i","x"," ","t","h","i","s">>

\* spec.md, Comment priority
ExNote ==
  <<"#"," ","j","u","s","t"," ","a"," ","n","o","t","e">>

\* spec.md, Merge key
ExMerge ==
  <<"<","<",":"," ","b","a","s","e">>

\* a merge key on an indented line after another line
ExMergeIndented ==
  <<"k","e","y",":"," ","1",NL," "," ","<","<",":"," ","b","a","s","e">>

\* a merge key in the middle of a line
ExMergeMidLine ==
  <<"a"," ","<","<",":"," ","b">>

\* a merge key inside a double-quoted string
ExMergeInString ==
  <<"\"","<","<",":"," ","a","\"">>

\* spec.md, Block literal boundary
ExBlock ==
  <<"|",NL," "," ","a",NL," "," ","b",NL,"c">>

\* a block-literal marker followed by a blank line
ExBlockBlank ==
  <<"k","e","y",":"," ","|",NL,NL," "," ","a",NL,"c">>

\* a float
ExFloat ==
  <<"-","1",".","5">>

\* an integer
ExInteger ==
  <<"4","2">>

\* a hexadecimal numeral
ExHex ==
  <<"0","x","1","F">>

\* an octal numeral
ExOct ==
  <<"0","o","1","7">>

\* spec.md, Termination: a lone %
ExPercent ==
  <<"%">>

\* a document separator on the last line
ExSeparator ==
  <<"a",":"," ","1",NL,"-","-","-",NL>>

\* pygments_tony.py, the module docstring
ExDocstring ==
  <<"!","t","a","g",NL,"k","e","y",":"," ","v","a","l","u","e",NL,"<","<",":"," ","m",
    "e","r","g","e",NL>>

\* test_lexer.py
ExTestLexer ==
  <<"!","t","a","g",NL,"k","e","y",":"," ","v","a","l","u","e",NL,"<","<",":"," ","m",
    "e","r","g","e",NL,"$","[","v","a","r","]",NL,".","[","p","a","t","h","]",NL,"#",
    " ","c","o","m","m","e","n","t",NL>>

Examples ==
  {ExTagArgs, ExTagColon, ExInterp, ExTodo, ExNote,
   ExMerge, ExMergeIndented, ExMergeMidLine, ExMergeInString, ExBlock,
   ExBlockBlank, ExFloat, ExInteger, ExHex, ExOct,
   ExPercent, ExSeparator, ExDocstring, ExTestLexer}

MaxLen == 4

Strings(A, n) == UNION {[1..k -> A] : k \in 0..n}

\* block-literal markers, document separators, list dashes
AlphaBlock == {"|", "-", " ", NL, "a"}

\* tags
AlphaTag == {"!", "a", ".", ":", "(", " "}

\* numerals
AlphaNum == {"-", "0", "x", "o", "."}

\* comments
AlphaComment == {"#", "X", "a", "-", NL}

\* merge keys
AlphaMerge == {"<", ":", " ", NL, "a"}

\* the contents of a double-quoted string
AlphaString == {"\"", "\\", "$", "[", "]", "a"}

Alphabets == {AlphaBlock, AlphaTag, AlphaNum, AlphaComment, AlphaMerge, AlphaString}

Inputs == Examples \cup UNION {Strings(A, MaxLen) : A \in Alphabets}

\* an opening double quote, then any contents
QuotedInputs == Examples \cup {<<"\"">> \o w : w \in Strings(AlphaString, MaxLen + 1)}

Init == Start(Inputs)

Spec == Init /\ [][Next]_vars

InitString == Start(QuotedInputs)

SpecString == InitString /\ [][Next]_vars

(***************************************************************************)
(* Vocabulary of the properties.                                           *)
(***************************************************************************)
RECURSIVE Lexemes(_)

\* the lexemes of a token sequence, concatenated
Lexemes(toks) ==
  IF toks = <<>> THEN <<>> ELSE Head(toks).lex \o Lexemes(Tail(toks))

\* the tokens lie one after the other and cover exactly the positions from..to-1
Contiguous(toks, from, to) ==
  /\ \A i \in 1..Len(toks) :
       toks[i].off = IF i = 1 THEN from ELSE toks[i - 1].off + Len(toks[i - 1].lex)
  /\ to = IF toks = <<>> THEN from
          ELSE toks[Len(toks)].off + Len(toks[Len(toks)].lex)

Kinds(toks) == {toks[i].kind : i \in 1..Len(toks)}

Chars(lex) == {lex[i] : i \in 1..Len(lex)}

\* the last iteration was a real one (not the start) of the loop in state mode
Stepped(mode) == last.kind # "start" /\ last.mode = mode /\ last.from <= Len(text)

LineStart(p) == p = 1 \/ text[p - 1] = NL

\* the position of the last character of the line that holds position p (p - 1
\* when p is the line's newline)
LineEnd(p) ==
  CHOOSE e \in (p - 1)..Len(text) :
    /\ \A j \in p..e : text[j] # NL
    /\ e = Len(text) \/ text[e + 1] = NL

\* the word w stands at position k of the text
At(w, k) == k + Len(w) - 1 <= Len(text) /\ SubSeq(text, k, k + Len(w) - 1) = w

\* C1: the tokens emitted so far are contiguous from the first character and their
\* lexemes concatenate to exactly the text scanned so far, so that at the end of
\* input they reconstruct the whole input
Coverage ==
  /\ Contiguous(out, 1, pos)
  /\ Lexemes(out) = SubSeq(text, 1, pos - 1)

\* no rule of any state matches an empty span anywhere in s
NoEmptyMatch(s) ==
  \A mode \in Modes : \A i \in 1..Len(tokens(mode)) : \A p \in 1..(Len(s) + 1) :
    LET b == Path(tokens(mode)[i].pat, 1, s, p)
    IN  b # <<>> => b[Len(b)] > p

\* C2: every iteration of the loop, a rule match or a fallback, advances the scan
\* position by at least one character, no rule of any state can match an empty
\* span, and no rule matches at the end of input, so the loop ends there after at
\* most Len(text) iterations
Progress ==
  /\ pos <= Len(text) + 1
  /\ nsteps <= pos - 1
  /\ last.kind # "start" => last.to > last.from
  /\ pos = Len(text) + 1 => cur.i = 0
  /\ nsteps = 0 => NoEmptyMatch(text)

\* C2: a text of three characters or more has been tokenized to its end, the last
\* step by the one-character fallback, in as many steps as it has characters
ProgressWitness ==
  Done /\ Len(text) >= 3 /\ nsteps = Len(text) /\ last.kind = "error"

\* the transitions of the table: '#pop' only in a state other than root, tag-args
\* and block-literal pushed only by root, double-string only by root or tag-args
TableTransitions ==
  \A mode \in Modes : \A i \in 1..Len(tokens(mode)) :
    LET new == tokens(mode)[i].new
    IN  /\ new \in {"", "#pop", "tag-args", "double-string", "block-literal"}
        /\ new = "#pop" => mode # "root"
        /\ new \in {"tag-args", "block-literal"} => mode = "root"
        /\ new = "double-string" => mode \in {"root", "tag-args"}

\* C10: the stack is never empty, has root at the bottom and nowhere else, and is
\* never deeper than 3; a pop is executed only on a stack of two states or more
\* and removes exactly the state that was on top; tag-args and block-literal are
\* pushed only from root and double-string only from root or tag-args
StackDiscipline ==
  /\ Len(stack) \in 1..3
  /\ stack[1] = "root"
  /\ \A i \in 2..Len(stack) : stack[i] \in Modes \ {"root"}
  /\ TableTransitions
  /\ last.kind = "rule" =>
       LET new == tokens(last.mode)[last.rule].new
       IN  /\ new = "#pop" =>
                /\ Len(last.before) >= 2
                /\ last.mode # "root"
                /\ stack = SubSeq(last.before, 1, Len(last.before) - 1)
           /\ new \in {"tag-args", "block-literal"} =>
                last.mode = "root" /\ stack = Append(last.before, new)
           /\ new = "double-string" =>
                last.mode \in {"root", "tag-args"} /\ stack = Append(last.before, new)
           /\ new = "" => stack = last.before

\* C10: a closing quote has just popped double-string off a stack of two states
StackWitness ==
  /\ last.kind = "rule"
  /\ tokens(last.mode)[last.rule].new = "#pop"
  /\ last.before = <<"root", "double-string">>
  /\ stack = <<"root">>

\* a step that begins at position p in double-string began at an interpolation
\* $[...] whose closing bracket is at e: the content p+2..e-1 is not empty and
\* holds no closing bracket
InterpAt(p, e) ==
  /\ At(<<"$", "[">>, p)
  /\ e >= p + 3 /\ e <= Len(text) /\ text[e] = "]"
  /\ \A k \in (p + 2)..(e - 1) : text[k] # "]"

\* the last character of the run of characters other than \ " $ that begins at p
RunEnd(p) ==
  CHOOSE e \in p..Len(text) :
    /\ \A j \in p..e : text[j] \notin {"\\", "\"", "$"}
    /\ e = Len(text) \/ text[e + 1] \in {"\\", "\"", "$"}

Popped(st) == SubSeq(st, 1, Len(st) - 1)

\* C8: in double-string, entered at an opening quote, an interpolation $[...] with
\* non-empty content is one variable-name token, a run of other text is one string
\* token that stops at the next \ " or $, an escape (also \") is one escape token
\* and leaves the mode on the stack, and the mode is left only at a closing quote,
\* which is one string token and pops back to the state that opened the string;
\* the example "a$[x]b" yields string a, variable-name $[x], string b between the
\* two quote tokens and ends with the stack <<root>>
StringMode ==
  /\ ( /\ last.kind = "rule"
       /\ last.mode \in {"root", "tag-args"}
       /\ text[last.from] = "\"" )
     => /\ stack = Append(last.before, "double-string")
        /\ last.toks = <<Token(last.from, "String.Double", <<"\"">>)>>
  /\ Stepped("double-string") =>
       LET p == last.from
       IN  /\ \A e \in (p + 3)..Len(text) :
                InterpAt(p, e) =>
                  /\ last.toks = <<Token(p, "Name.Variable", SubSeq(text, p, e))>>
                  /\ stack = last.before
           /\ text[p] \notin {"\\", "\"", "$"} =>
                /\ last.toks = <<Token(p, "String.Double", SubSeq(text, p, RunEnd(p)))>>
                /\ stack = last.before
           /\ ( /\ text[p] = "\\"
                /\ p < Len(text)
                /\ text[p + 1] \in {"\\", "\"", "n", "r", "t", "b", "f"} )
              => /\ last.toks = <<Token(p, "String.Escape", SubSeq(text, p, p + 1))>>
                 /\ stack = last.before
           /\ text[p] = "\"" =>
                /\ last.toks = <<Token(p, "String.Double", <<"\"">>)>>
                /\ stack = Popped(last.before)
           /\ stack # last.before => text[p] = "\""
  /\ (Done /\ text = ExInterp) =>
       /\ out = <<Token(1, "String.Double", <<"\"">>),
                  Token(2, "String.Double", <<"a">>),
                  Token(3, "Name.Variable", <<"$", "[", "x", "]">>),
                  Token(7, "String.Double", <<"b">>),
                  Token(8, "String.Double", <<"\"">>)>>
       /\ stack = <<"root">>

\* C8: a closing quote has just popped back to root from a string, other than the
\* example, in which an interpolation was tokenized
StringWitness ==
  /\ Stepped("double-string")
  /\ text[last.from] = "\""
  /\ last.before = <<"root", "double-string">>
  /\ stack = <<"root">>
  /\ "Name.Variable" \in Kinds(out)
  /\ text # ExInterp

Markers == {<<"T", "O", "D", "O">>, <<"F", "I", "X", "M", "E">>, <<"X", "X", "X">>,
            <<"N", "O", "T", "E">>}

\* the comment that begins with the # at p and runs to the end e of its line holds
\* one of the markers
Marked(p, e) ==
  \E w \in Markers : \E k \in (p + 1)..e : At(w, k) /\ k + Len(w) - 1 <= e

CommentKinds == {"Comment", "Comment.Special"}

\* a step of root that begins at a # yields exactly one token, from the # to the
\* end of the line: comment-special when the comment holds a marker, and a plain
\* comment otherwise
CommentRules ==
  (Stepped("root") /\ text[last.from] = "#") =>
    LET p == last.from
        e == LineEnd(p)
    IN  /\ last.toks = <<Token(p, IF Marked(p, e) THEN "Comment.Special" ELSE "Comment",
                               SubSeq(text, p, e))>>
        /\ last.to = e + 1
        /\ stack = last.before

\* C9 (as amended): a # comment with a marker is one comment-special token from
\* the # to the end of the line, any other # comment is one plain comment token
\* from the # to the end of the line, and no token of a # comment holds a newline
CommentTokens ==
  /\ CommentRules
  /\ \A i \in 1..Len(out) :
       (out[i].kind \in CommentKinds /\ out[i].lex[1] = "#") => NL \notin Chars(out[i].lex)

\* C9 (as stated): the same, and no token of kind comment or comment-special holds
\* a newline
CommentTokensNoNewline ==
  /\ CommentRules
  /\ \A i \in 1..Len(out) : out[i].kind \in CommentKinds => NL \notin Chars(out[i].lex)

\* C9: a comment that runs to the end of the input, and whose marker does not
\* follow the # directly, has just been emitted as one comment-special token
CommentWitness ==
  /\ Stepped("root")
  /\ At(<<"#", " ">>, last.from)
  /\ Kinds(last.toks) = {"Comment.Special"}
  /\ last.to = Len(text) + 1

\* the tag name that begins after the ! at p ends before k, with characters cs
TagUpTo(p, k, cs) ==
  /\ text[p] = "!"
  /\ k > p + 1 /\ k <= Len(text)
  /\ \A j \in (p + 1)..(k - 1) : text[j] \in cs

NonText(toks) == SelectSeq(toks, LAMBDA t : t.kind \notin {"Text", "Whitespace"})

\* C3: a tag directly followed by ( yields a keyword token and pushes tag-args, the
\* closing ) is a keyword token that pops back to root, and !tag(1, "x") yields a
\* keyword for the tag, the number 1, the punctuation , the string "x" and the
\* keyword ) and ends with the stack <<root>>
TagWithArgsPushes ==
  /\ Stepped("root") =>
       \A k \in (last.from + 2)..Len(text) :
         (TagUpTo(last.from, k, TagChar) /\ text[k] = "(") =>
           /\ "Keyword" \in Kinds(last.toks)
           /\ stack = Append(last.before, "tag-args")
  /\ (Stepped("tag-args") /\ text[last.from] = ")") =>
       /\ last.toks = <<Token(last.from, "Keyword", <<")">>)>>
       /\ stack = Popped(last.before)
  /\ (Done /\ text = ExTagArgs) =>
       LET toks == NonText(out)
       IN  /\ toks[1].kind = "Keyword"
           /\ \E i \in 1..Len(toks) :
                toks[i].kind = "Number.Integer" /\ toks[i].lex = <<"1">>
           /\ \E i \in 1..Len(toks) :
                toks[i].kind = "Punctuation" /\ toks[i].lex[1] = ","
           /\ toks[Len(toks)] = Token(Len(text), "Keyword", <<")">>)
           /\ stack = <<"root">>

\* C4: a tag followed by : and whitespace is a keyword token of exactly the ! and
\* the dotted name, the : after it begins a punctuation token, and !foo.bar: 1
\* yields the keyword !foo.bar, a punctuation token for : and the number 1
TagBeforeColon ==
  /\ Stepped("root") =>
       \A k \in (last.from + 2)..(Len(text) - 1) :
         ( /\ TagUpTo(last.from, k, Word \cup {"."})
           /\ text[k] = ":"
           /\ text[k + 1] \in Space )
         => last.toks = <<Token(last.from, "Keyword", SubSeq(text, last.from, k - 1))>>
  /\ (Done /\ text = ExTagColon) =>
       /\ out[1] = Token(1, "Keyword", <<"!", "f", "o", "o", ".", "b", "a", "r">>)
       /\ out[2].kind = "Punctuation" /\ out[2].lex[1] = ":"
       /\ out[Len(out)] = Token(Len(text), "Number.Integer", <<"1">>)

\* the first position of the line that holds position p
LineBegin(p) == CHOOSE b \in 1..p : LineStart(b) /\ \A j \in b..(p - 1) : text[j] # NL

\* <<: stands at position i as the first text of its line that is not whitespace
MergeKeyLeads(i) ==
  /\ At(<<"<", "<", ":">>, i)
  /\ \A j \in LineBegin(i)..(i - 1) : text[j] \in Space

Covers(t, from, to) == t.off <= from /\ to <= t.off + Len(t.lex) - 1

\* C5: in root, every <<: that is the first text of its line that is not whitespace
\* lies in an operator token, and an operator token is emitted only for such a <<:
\* (never for one in the middle of a line or inside a double-quoted string)
MergeKeyOperator ==
  /\ Stepped("root") =>
       \A i \in last.from..(last.to - 1) :
         MergeKeyLeads(i) =>
           \E j \in 1..Len(last.toks) :
             last.toks[j].kind = "Operator" /\ Covers(last.toks[j], i, i + 2)
  /\ \A j \in 1..Len(last.toks) :
       last.toks[j].kind = "Operator" =>
         /\ last.mode = "root"
         /\ \E i \in last.from..(last.to - 1) :
              MergeKeyLeads(i) /\ Covers(last.toks[j], i, i + 2)

\* C6: once a marker line has pushed block-literal, a line that begins with
\* whitespace is one string token of the whole line, the mode is left only at the
\* first character of a line that does not begin with whitespace and without
\* consuming it, and after a | line two indented lines are two string tokens
BlockLiteralLines ==
  /\ (Stepped("block-literal") /\ LineStart(last.from) /\ text[last.from] \in {" ", "\t"}) =>
       /\ last.toks = <<Token(last.from, "String",
                              SubSeq(text, last.from, LineEnd(last.from)))>>
       /\ stack = last.before
  /\ (Stepped("block-literal") /\ stack # last.before) =>
       /\ LineStart(last.from)
       /\ text[last.from] \notin Space
       /\ pos = last.from
       /\ stack = Popped(last.before)
  /\ (Done /\ text = ExBlock) =>
       /\ Len(SelectSeq(out, LAMBDA t : t.kind = "String")) = 2
       /\ out[Len(out)] = Token(Len(text), "Name", <<"c">>)

\* the numeral form of rule r begins at p and ends before the result (0: it does
\* not begin there)
FormEnd(r, p) ==
  LET b == Path(r.pat, 1, text, p) IN IF b = <<>> THEN 0 ELSE b[Len(b)]

\* C7: in root a numeral is one number token whose kind is that of its form: a
\* decimal with a fraction is number-float, a 0x numeral number-hex, a 0o numeral
\* number-octal, and any other decimal number-integer, each with its optional -
NumeralKinds ==
  Stepped("root") =>
    LET p == last.from
        typed == {r \in {NumFloat, NumHex, NumOct} : FormEnd(r, p) # 0}
    IN  /\ \A r \in typed :
             last.toks = <<Token(p, r.tok, SubSeq(text, p, FormEnd(r, p) - 1))>>
        /\ (typed = {} /\ FormEnd(NumInteger, p) # 0) =>
             last.toks = <<Token(p, "Number.Integer",
                                 SubSeq(text, p, FormEnd(NumInteger, p) - 1))>>

====
